---- MODULE Spec2Model ----
(***************************************************************************)
(* Hybrid KEM of the OQS OpenSSL 3 provider (src/oqsprov/oqs_hyb_kem.c).   *)
(*                                                                         *)
(* The state is the set of provider KEM contexts (PROV_OQSHYBKEM_CTX), the *)
(* reference-counted keys (OQSX_KEY) they are bound to, and a record of    *)
(* the last call made through the dispatch table with everything it wrote. *)
(* Buffers are sequences of bytes; every byte is an integer, -1 standing   *)
(* for a byte of a caller buffer the call has not written.                 *)
(***************************************************************************)
EXTENDS Integers, Sequences, FiniteSets, TLC

VARIABLES ctxState, ctxKem, refcnt, owner, last, wire, pend

vars == <<ctxState, ctxKem, refcnt, owner, last, wire, pend>>

(***************************************************************************)
(* Bounds of the model.                                                    *)
(***************************************************************************)
NumCtx == 2          \* contexts the callers create
NumKeys == 3         \* OQSX_KEY objects handed out by key management
NumEph == 2          \* distinct ephemeral key-exchange keypairs keygen can draw
NumRand == 2         \* distinct random coins OQS_KEM_encaps can draw
KemCtLen == 2        \* hybkem->kem->length_ciphertext
KemSsLen == 2        \* hybkem->kem->length_shared_secret
KemKeyLen == 1       \* length of the KEM half of a composite key
KexPubLen == 2       \* hybkem->kex_info.kex_length_public_key
KexSsLen == 1        \* hybkem->kex_info.kex_length_secret
KexPrivLen == 1      \* length of the key-exchange half of a private key

(***************************************************************************)
(* Program constants.                                                      *)
(***************************************************************************)
NULL == 0            \* the null pointer; keys and contexts are numbered from 1
OQS_SUCCESS == 0     \* liboqs status compared against at lines 170, 230, 252, 302
UINT16_RANGE == 65536  \* oqsx_get_ct_ptr takes its three lengths as uint16_t
BLANK == -1          \* a byte of a caller buffer that no call has written
NULLPTR == -1        \* the null pointer among the offsets into a buffer

CtxIds == 1..NumCtx
KeyIds == 1..NumKeys
EphIds == 1..NumEph
RandIds == 1..NumRand

(***************************************************************************)
(* Keys.  Key management generates keypairs 1 and 2; key object k holds    *)
(* keypair KeyPairOf(k).  Objects 1 and 2 are well formed.  Objects 3 and  *)
(* up carry a composite public key as a peer can send it: the same bytes   *)
(* followed by one more byte, with the key-exchange length field declaring *)
(* that longer length.                                                     *)
(***************************************************************************)
NumPairs == 2
PairIds == 1..NumPairs
KeyPairOf(k) == ((k - 1) % NumPairs) + 1
WellFormed(k) == k <= NumPairs
DeclaredKexLen(k) == IF WellFormed(k) THEN KexPubLen ELSE KexPubLen + 1

\* Key-exchange key identities: static ones (one per keypair), then ephemeral.
StaticKex(p) == p
EphKex(e) == NumPairs + e
KexIds == 1..(NumPairs + NumEph)

Rep(n, b) == [i \in 1..n |-> b]

ENCODE_UINT32(n) ==
    << (n \div 16777216) % 256, (n \div 65536) % 256, (n \div 256) % 256, n % 256 >>

\* DECODE_UINT32(v, buf + off): big-endian, four bytes
DECODE_UINT32(buf, off) ==
    buf[off + 1] * 16777216 + buf[off + 2] * 65536 + buf[off + 3] * 256 + buf[off + 4]

KemPubBytes(p) == Rep(KemKeyLen, 10 + p)
KemPrivBytes(p) == Rep(KemKeyLen, 20 + p)
KexPubEnc(x) == Rep(KexPubLen, 30 + x)
KexPrivEnc(x) == Rep(KexPrivLen, 50 + x)

\* key->pubkey and key->privkey: kemLen || kemBytes || kexLen || kexBytes
PubKeyOf(k) ==
    ENCODE_UINT32(KemKeyLen) \o KemPubBytes(KeyPairOf(k))
        \o ENCODE_UINT32(DeclaredKexLen(k))
        \o KexPubEnc(StaticKex(KeyPairOf(k)))
        \o Rep(DeclaredKexLen(k) - KexPubLen, 0)

PrivKeyOf(k) ==
    ENCODE_UINT32(KemKeyLen) \o KemPrivBytes(KeyPairOf(k))
        \o ENCODE_UINT32(KexPrivLen)
        \o KexPrivEnc(StaticKex(KeyPairOf(k)))

(***************************************************************************)
(* The opaque primitives.  OQS_KEM_encaps and OQS_KEM_decaps are liboqs',  *)
(* the EVP_PKEY calls are OpenSSL's; each is modelled by its contract.     *)
(* The KEM is correct (decapsulating KemCt(p, r) under keypair p gives     *)
(* KemSs(p, r); any other ciphertext gives the implicit-rejection secret)  *)
(* and the key exchange is symmetric.                                      *)
(***************************************************************************)
KemCt(p, r) == Rep(KemCtLen, 60 + 8 * p + r)
KemSs(p, r) == Rep(KemSsLen, 200 + 8 * p + r)
KemReject == Rep(KemSsLen, 250)

Min(a, b) == IF a <= b THEN a ELSE b
Max(a, b) == IF a <= b THEN b ELSE a
KexSecret(x, y) == Rep(KexSsLen, 100 + 8 * Min(x, y) + Max(x, y))

\* OQS_KEM_encaps(kem, ct1, secret, pubkey_kem) with coins r
OQS_KEM_encaps(pubkey_kem, r) ==
    LET p == pubkey_kem[1] - 10
    IN  [ct |-> KemCt(p, r), ss |-> KemSs(p, r)]

\* OQS_KEM_decaps(kem, secret, ct1, privkey_kem)
OQS_KEM_decaps(ct1, privkey_kem) ==
    LET p == privkey_kem[1] - 20
    IN  IF \E r \in RandIds : ct1 = KemCt(p, r)
        THEN KemSs(p, CHOOSE r \in RandIds : ct1 = KemCt(p, r))
        ELSE KemReject

\* EVP_PKEY_set1_encoded_public_key: the key the bytes encode, NULL if none
KexDecodePub(bytes) ==
    IF \E x \in KexIds : bytes = KexPubEnc(x)
    THEN CHOOSE x \in KexIds : bytes = KexPubEnc(x)
    ELSE NULL

\* EVP_PKEY_new_raw_private_key / d2i_AutoPrivateKey
KexDecodePriv(bytes) ==
    IF \E x \in KexIds : bytes = KexPrivEnc(x)
    THEN CHOOSE x \in KexIds : bytes = KexPrivEnc(x)
    ELSE NULL

(***************************************************************************)
(* The record of a call: its arguments, what it returned and what it       *)
(* wrote.  ret is the C return value; returned is FALSE when the call      *)
(* faulted instead of returning; fault names the undefined behaviour the   *)
(* call executed, if any.  kex and kem say what the key-exchange           *)
(* derivation and the KEM primitive reported in the call: "ok", "fail", or *)
(* "none" when the call did not invoke it; keygen and encode say the same  *)
(* of the ephemeral key generation and of its public key's re-encoding.    *)
(* view is what oqsx_get_ct_ptr returned, its ret BLANK when the call did  *)
(* not reach it.  mid is, for an init call, the reference counts between   *)
(* its two reference operations.                                           *)
(***************************************************************************)
NoCall ==
    [op |-> "none", ctx |-> NULL, key |-> NULL, arg |-> NULL,
     ret |-> 0, returned |-> TRUE, fault |-> "none",
     ctArg |-> FALSE, secretArg |-> FALSE,
     ctIn |-> << >>, ctlenIn |-> 0,
     ct |-> << >>, ctlen |-> BLANK, secret |-> << >>, secretlen |-> BLANK,
     coins |-> NULL, eph |-> NULL, inject |-> "none",
     kex |-> "none", kem |-> "none",
     prims |-> << >>, acquired |-> {}, released |-> << >>,
     mid |-> << >>,
     view |-> [ret |-> BLANK, ct1 |-> NULLPTR, ct2 |-> NULLPTR],
     keygen |-> "none", encode |-> "none"]

(***************************************************************************)
(* OQSX_KEY reference counting (oqsx_key.c, outside src/): retain is an    *)
(* increment that fails on a key already destroyed; release is a decrement *)
(* and the key is destroyed when the count reaches zero.                   *)
(***************************************************************************)
Destroyed(rc, k) == rc[k] = 0

oqsx_key_up_ref_ok(rc, k) == ~Destroyed(rc, k)

oqsx_key_up_ref(rc, k) ==
    IF Destroyed(rc, k) THEN rc ELSE [rc EXCEPT ![k] = @ + 1]

oqsx_key_free(rc, k) ==
    IF k = NULL \/ Destroyed(rc, k) THEN rc ELSE [rc EXCEPT ![k] = @ - 1]

(***************************************************************************)
(* Init: nothing created yet; key management holds one reference to each   *)
(* key it made.                                                            *)
(***************************************************************************)
Init ==
    /\ ctxState = [c \in CtxIds |-> "none"]
    /\ ctxKem = [c \in CtxIds |-> NULL]
    /\ refcnt = [k \in KeyIds |-> 1]
    /\ owner = [k \in KeyIds |-> TRUE]
    /\ last = NoCall
    /\ wire = NoCall
    /\ pend = [c \in CtxIds |-> NULL]

\* A call that faulted without returning ended the process, and a double free
\* left its heap undefined: nothing is modelled after either.
Running == last.returned /\ last.fault # "use_after_free"

\* oqs_hyb_kem_newctx: OPENSSL_zalloc, kem left NULL; NULL on allocation failure
oqs_hyb_kem_newctx(c, allocOk) ==
    /\ Running
    /\ ctxState[c] = "none"
    /\ IF allocOk
       THEN /\ ctxState' = [ctxState EXCEPT ![c] = "live"]
            /\ ctxKem' = [ctxKem EXCEPT ![c] = NULL]
            /\ last' = [NoCall EXCEPT !.op = "newctx", !.ctx = c, !.ret = 1]
       ELSE /\ UNCHANGED <<ctxState, ctxKem>>
            /\ last' = [NoCall EXCEPT !.op = "newctx", !.ctx = c, !.ret = 0]
    /\ UNCHANGED <<refcnt, owner, wire, pend>>

\* line 130: the call is refused on a null key or a key that cannot be retained
InitRejectsNullOnly(rc, vkem) == vkem = NULL

InitRejects(rc, vkem) == vkem = NULL \/ ~oqsx_key_up_ref_ok(rc, vkem)

\* line 133 reached without the retain of line 130
InitFirstNone(rc, held, vkem) == rc

\* line 130: the first reference operation of an accepted call retains the new key
InitFirst(rc, held, vkem) == oqsx_key_up_ref(rc, vkem)

\* line 132: the second releases the key the context held
InitSecondNone(rc, held, vkem) == rc

InitSecond(rc, held, vkem) == oqsx_key_free(rc, held)

\* lines 130-132 in the opposite order: release the key held, then retain
InitTraceFreeFirst(rc, held, vkem) ==
    << oqsx_key_free(rc, held),
       oqsx_key_up_ref(oqsx_key_free(rc, held), vkem) >>

\* lines 130-132: the reference counts after each of the two operations
InitTrace(rc, held, vkem) ==
    << InitFirst(rc, held, vkem),
       InitSecond(InitFirst(rc, held, vkem), held, vkem) >>

\* lines 130-132: retain the new key, then release the one held
InitNoFree(rc, held, vkem) == oqsx_key_up_ref(rc, vkem)

InitRefs(rc, held, vkem) == InitTrace(rc, held, vkem)[2]

\* oqs_hyb_kem_decapsencaps_init; operation is not stored
oqs_hyb_kem_decapsencaps_init(c, vkem, operation) ==
    /\ Running
    /\ ctxState[c] = "live"
    /\ IF InitRejects(refcnt, vkem)
       THEN /\ UNCHANGED <<ctxKem, refcnt>>
            /\ last' = [NoCall EXCEPT !.op = operation, !.ctx = c,
                                      !.key = ctxKem[c], !.arg = vkem, !.ret = 0,
                                      !.mid = refcnt]
       ELSE /\ refcnt' = InitRefs(refcnt, ctxKem[c], vkem)
            /\ ctxKem' = [ctxKem EXCEPT ![c] = vkem]
            /\ last' = [NoCall EXCEPT !.op = operation, !.ctx = c,
                                      !.key = ctxKem[c], !.arg = vkem, !.ret = 1,
                                      !.mid = InitTrace(refcnt, ctxKem[c], vkem)[1]]
    /\ UNCHANGED <<ctxState, owner, wire, pend>>

oqs_hyb_kem_encaps_init(c, vkem) ==
    oqs_hyb_kem_decapsencaps_init(c, vkem, "encaps_init")

oqs_hyb_kem_decaps_init(c, vkem) ==
    oqs_hyb_kem_decapsencaps_init(c, vkem, "decaps_init")

\* oqs_hyb_kem_freectx with line 121 (oqsx_key_free) left out
FreeLiveLeak(c) ==
    /\ Running
    /\ ctxState[c] = "live"
    /\ ctxState' = [ctxState EXCEPT ![c] = "freed"]
    /\ last' = [NoCall EXCEPT !.op = "freectx", !.ctx = c, !.key = ctxKem[c]]
    /\ UNCHANGED <<ctxKem, refcnt, owner, wire, pend>>

\* oqs_hyb_kem_freectx on a context not yet freed
FreeLive(c) ==
    /\ Running
    /\ ctxState[c] = "live"
    /\ refcnt' = oqsx_key_free(refcnt, ctxKem[c])
    /\ ctxState' = [ctxState EXCEPT ![c] = "freed"]
    /\ last' = [NoCall EXCEPT !.op = "freectx", !.ctx = c, !.key = ctxKem[c]]
    /\ UNCHANGED <<ctxKem, owner, wire, pend>>

\* oqs_hyb_kem_freectx on a context already freed: pkemctx->kem is read from
\* freed memory and pkemctx is freed twice.  Either the allocator aborts, or
\* the stale kem is still there and is released once more.
FreeAgain(c, stale) ==
    /\ Running
    /\ ctxState[c] = "freed"
    /\ refcnt' = IF stale THEN oqsx_key_free(refcnt, ctxKem[c]) ELSE refcnt
    /\ last' = [NoCall EXCEPT !.op = "freectx", !.ctx = c, !.key = ctxKem[c],
                              !.fault = "use_after_free", !.returned = stale]
    /\ UNCHANGED <<ctxState, ctxKem, owner, wire, pend>>

oqs_hyb_kem_freectx(c, stale) == FreeLive(c) \/ FreeAgain(c, stale)

\* key management drops its own reference to a key
KeyOwnerFree(k) ==
    /\ Running
    /\ owner[k]
    /\ owner' = [owner EXCEPT ![k] = FALSE]
    /\ refcnt' = oqsx_key_free(refcnt, k)
    /\ last' = [NoCall EXCEPT !.op = "keyfree", !.arg = k]
    /\ UNCHANGED <<ctxState, ctxKem, wire, pend>>

(***************************************************************************)
(* Buffer views.  A pointer into a buffer is the offset it points at;      *)
(* NULLPTR is the null pointer.                                            *)
(***************************************************************************)

\* bytes written at buf + off
WriteAt(buf, off, bytes) ==
    [i \in 1..Len(buf) |->
        IF off < i /\ i <= off + Len(bytes) THEN bytes[i - off] ELSE buf[i]]

\* n bytes read at buf + off
ReadAt(buf, off, n) == [i \in 1..n |-> buf[off + i]]

\* oqsx_get_pubkey_ptr: offsets and declared lengths of the two halves
oqsx_get_pubkey_ptr(pubkey) ==
    LET kemlen == DECODE_UINT32(pubkey, 0)
        kexlen == DECODE_UINT32(pubkey, 4 + kemlen)
    IN  [kem |-> 4, kemlen |-> kemlen, kex |-> 4 + kemlen + 4, kexlen |-> kexlen]

\* oqsx_get_privkey_ptr
oqsx_get_privkey_ptr(privkey) ==
    LET kemlen == DECODE_UINT32(privkey, 0)
        kexlen == DECODE_UINT32(privkey, 4 + kemlen)
    IN  [kem |-> 4, kemlen |-> kemlen, kex |-> 4 + kemlen + 4, kexlen |-> kexlen]

\* oqsx_get_ct_ptr with line 90 (index += ct1len) left out
oqsx_get_ct_ptr_noadvance(ctPresent, ctlen, ct1len, ct2len) ==
    LET l == ctlen % UINT16_RANGE
        l1 == ct1len % UINT16_RANGE
        l2 == ct2len % UINT16_RANGE
    IN  IF l # l1 + l2 \/ ~ctPresent
        THEN [ret |-> 0, ct1 |-> NULLPTR, ct2 |-> NULLPTR]
        ELSE [ret |-> 1, ct1 |-> 0, ct2 |-> 0]

\* oqsx_get_ct_ptr: the three lengths arrive as uint16_t; ct1 and ct2 are
\* left as the caller set them (NULL) when the check fails
oqsx_get_ct_ptr(ctPresent, ctlen, ct1len, ct2len) ==
    LET l == ctlen % UINT16_RANGE
        l1 == ct1len % UINT16_RANGE
        l2 == ct2len % UINT16_RANGE
    IN  IF l # l1 + l2 \/ ~ctPresent
        THEN [ret |-> 0, ct1 |-> NULLPTR, ct2 |-> NULLPTR]
        ELSE [ret |-> 1, ct1 |-> 0, ct2 |-> l1]

\* line 189: *ctlen = hybkem->kem->length_ciphertext + pubkey_kexlen, the
\* key-exchange length being the one decoded from the key bytes
EncapsCtLen(pubkey_kexlen) == KemCtLen + pubkey_kexlen

\* lines 190 and 269: *secretlen = length_shared_secret + kexDeriveLen
HybSecretLen == KemSsLen + KexSsLen

\* lines 230 and 302: the KEM secret goes to secret
KemSecretAt == 0

\* lines 227 and 299: the key-exchange secret goes to secret + length_shared_secret
KexSecretAtStart == KemSecretAt

KexSecretAt == KemSsLen

\* line 192: if (ct == NULL || secret == NULL) return 1
EncapsSizeQueryBoth(ctArg, secretArg) == ~ctArg /\ ~secretArg

EncapsSizeQuery(ctArg, secretArg) == ~ctArg \/ ~secretArg

\* line 270: if (secret == NULL) return 1
DecapsSizeQuery(secretArg) == ~secretArg

First(S) == CHOOSE i \in S : \A j \in S : i <= j

Keep(seq, S) == SelectSeq(seq, LAMBDA h : h \in S)

(***************************************************************************)
(* oqs_hyb_kem_encaps.  inject names the primitive a test double makes     *)
(* fail ("encoded_length": EVP_PKEY_get1_encoded_public_key returns an     *)
(* encoding of another length); r and e are what the random source gives   *)
(* OQS_KEM_encaps and EVP_PKEY_keygen.                                     *)
(***************************************************************************)
\* the steps with lines 227 and 230 exchanged: the KEM primitive first
EncapsStepsKemFirst ==
    << "EVP_PKEY_new", "EVP_PKEY_copy_parameters",
       "EVP_PKEY_set1_encoded_public_key", "EVP_PKEY_CTX_new_kg",
       "EVP_PKEY_keygen_init", "EVP_PKEY_keygen", "EVP_PKEY_CTX_new",
       "EVP_PKEY_derive_init", "EVP_PKEY_derive_set_peer", "OQS_KEM_encaps",
       "EVP_PKEY_derive", "EVP_PKEY_get1_encoded_public_key" >>

EncapsSteps ==
    << "EVP_PKEY_new", "EVP_PKEY_copy_parameters",
       "EVP_PKEY_set1_encoded_public_key", "EVP_PKEY_CTX_new_kg",
       "EVP_PKEY_keygen_init", "EVP_PKEY_keygen", "EVP_PKEY_CTX_new",
       "EVP_PKEY_derive_init", "EVP_PKEY_derive_set_peer", "EVP_PKEY_derive",
       "OQS_KEM_encaps", "EVP_PKEY_get1_encoded_public_key" >>

EncapsInjects == {EncapsSteps[i] : i \in 1..Len(EncapsSteps)} \cup {"encoded_length"}

\* the err: label without line 241, EVP_PKEY_free(pkey)
EncapsHandlesNoPkey == << "ctx", "kgctx", "peerpk", "ctkex_encoded" >>

\* the handle each step assigns, in the order the err: label frees them
EncapsHandles == << "ctx", "kgctx", "pkey", "peerpk", "ctkex_encoded" >>

\* line 234 without its comparison of the encoded length with the key's
EncodeAnyLength(pkeylen, pubkey_kexlen) == pkeylen <= 0

\* line 234: ON_ERR_SET_GOTO(pkeylen <= 0 || !ctkex_encoded || pkeylen != pubkey_kexlen, ...)
EncodeFailed(pkeylen, pubkey_kexlen) == pkeylen <= 0 \/ pkeylen # pubkey_kexlen

\* oqs_hyb_kem_encaps with a key bound
EncapsBound(c, key, ctArg, secretArg, r, e, inject) ==
    LET pubkey == PubKeyOf(key)
        pk == oqsx_get_pubkey_ptr(pubkey)
        pubkey_kem == ReadAt(pubkey, pk.kem, pk.kemlen)
        pubkey_kex == ReadAt(pubkey, pk.kex, pk.kexlen)
        ctlen == EncapsCtLen(pk.kexlen)
        secretlen == HybSecretLen
        ct0 == IF ctArg THEN Rep(ctlen, BLANK) ELSE << >>
        secret0 == IF secretArg THEN Rep(secretlen, BLANK) ELSE << >>
        call == [NoCall EXCEPT !.op = "encaps", !.ctx = c, !.key = key,
                               !.ctArg = ctArg, !.secretArg = secretArg,
                               !.ctlen = ctlen, !.secretlen = secretlen,
                               !.ct = ct0, !.secret = secret0]
        \* compute phase
        peer == KexDecodePub(pubkey_kex)
        view == oqsx_get_ct_ptr(ctArg, ctlen, KemCtLen, pk.kexlen)
        pkeylen == IF inject = "EVP_PKEY_get1_encoded_public_key" THEN 0
                   ELSE IF inject = "encoded_length" THEN KexPubLen + 1
                   ELSE KexPubLen
        fails == {i \in 1..Len(EncapsSteps) :
                     \/ inject = EncapsSteps[i]
                     \/ i = 3 /\ peer = NULL
                     \/ i = 12 /\ EncodeFailed(pkeylen, pk.kexlen)}
        f == IF fails = {} THEN Len(EncapsSteps) + 1 ELSE First(fails)
        ok(i) == i < f
        kex == KexSecret(EphKex(e), peer)
        kemres == OQS_KEM_encaps(pubkey_kem, r)
        secret1 == IF ok(10) THEN WriteAt(secret0, KexSecretAt, kex) ELSE secret0
        secret2 == IF ok(11) THEN WriteAt(secret1, KemSecretAt, kemres.ss) ELSE secret1
        ct1 == IF ok(11) THEN WriteAt(ct0, view.ct1, kemres.ct) ELSE ct0
        ct2 == IF ok(12) THEN WriteAt(ct1, view.ct2, KexPubEnc(EphKex(e))) ELSE ct1
        got == {h \in {"ctx", "kgctx", "pkey", "peerpk", "ctkex_encoded"} :
                   \/ h = "peerpk" /\ ok(1)
                   \/ h = "kgctx" /\ ok(4)
                   \/ h = "pkey" /\ ok(6)
                   \/ h = "ctx" /\ ok(7)
                   \/ h = "ctkex_encoded" /\ ok(11) /\ pkeylen # 0}
    IN  IF EncapsSizeQuery(ctArg, secretArg)
        THEN [call EXCEPT !.ret = 1]
        ELSE IF f >= 11 /\ view.ret = 0
        THEN [call EXCEPT !.fault = "null_write", !.returned = FALSE,
                          !.secret = secret1, !.kex = "ok",
                          !.prims = SubSeq(EncapsSteps, 1, 11),
                          !.eph = e, !.inject = inject,
                          !.view = view, !.keygen = "ok",
                          !.acquired = got \ {"ctkex_encoded"}]
        ELSE [call EXCEPT !.ret = IF f <= Len(EncapsSteps) THEN -1 ELSE 1,
                          !.ct = ct2, !.secret = secret2,
                          !.kex = IF ok(10) THEN "ok" ELSE IF f = 10 THEN "fail" ELSE "none",
                          !.kem = IF ok(11) THEN "ok" ELSE IF f = 11 THEN "fail" ELSE "none",
                          !.keygen = IF ok(6) THEN "ok" ELSE IF f = 6 THEN "fail" ELSE "none",
                          !.encode = IF f < 12 THEN "none"
                                     ELSE IF pkeylen = pk.kexlen THEN "ok" ELSE "fail",
                          !.view = IF f >= 10 THEN view ELSE NoCall.view,
                          !.inject = inject,
                          !.eph = IF ok(6) THEN e ELSE NULL,
                          !.coins = IF ok(11) THEN r ELSE NULL,
                          !.prims = IF f <= Len(EncapsSteps)
                                    THEN SubSeq(EncapsSteps, 1, f)
                                    ELSE EncapsSteps \o << "memcpy" >>,
                          !.acquired = got,
                          !.released = Keep(EncapsHandles, got)]

\* oqs_hyb_kem_encaps with no key bound: line 177 reads pkemctx->kem->primitive
\* through the null kem
EncapsUnbound(c, ctArg, secretArg) ==
    [NoCall EXCEPT !.op = "encaps", !.ctx = c, !.key = NULL,
                   !.ctArg = ctArg, !.secretArg = secretArg,
                   !.ct = IF ctArg THEN Rep(EncapsCtLen(KexPubLen), BLANK) ELSE << >>,
                   !.secret = IF secretArg THEN Rep(HybSecretLen, BLANK) ELSE << >>,
                   !.fault = "null_deref", !.returned = FALSE]

Succeeded(call) == call.returned /\ call.ret = 1

ComputePhase(call) ==
    \/ call.op = "encaps" /\ call.ctArg /\ call.secretArg
    \/ call.op = "decaps" /\ call.secretArg

\* the call, and the caller keeping (or not) what a successful encapsulation
\* gave it, to hand the ciphertext to a decapsulation later
oqs_hyb_kem_encaps(c, ctArg, secretArg, r, e, inject, keep) ==
    /\ Running
    /\ ctxState[c] = "live"
    /\ last' = IF ctxKem[c] = NULL
               THEN EncapsUnbound(c, ctArg, secretArg)
               ELSE EncapsBound(c, ctxKem[c], ctArg, secretArg, r, e, inject)
    /\ wire' = IF keep /\ Succeeded(last') /\ ComputePhase(last') THEN last' ELSE wire
    /\ UNCHANGED <<ctxState, ctxKem, refcnt, owner, pend>>

(***************************************************************************)
(* oqs_hyb_kem_decaps.  ctIn holds the leading bytes of the caller's       *)
(* ciphertext buffer and ctlenIn its length; the bytes of a longer buffer  *)
(* that ctIn does not hold are zero.  lucky settles the undefined          *)
(* behaviour the call may execute: a handle the call never assigned holds  *)
(* NULL (lucky) or junk, and a primitive handed a null view reports        *)
(* failure (lucky) or faults.                                              *)
(***************************************************************************)
\* hybkem->kex_info.raw_key_support: keypair 1 is of a raw-key group
RawKeySupport(key) == KeyPairOf(key) = 1

DecapsSteps(key) ==
    << IF RawKeySupport(key) THEN "EVP_PKEY_new_raw_private_key"
                             ELSE "d2i_AutoPrivateKey",
       "EVP_PKEY_new", "EVP_PKEY_copy_parameters",
       "EVP_PKEY_set1_encoded_public_key", "EVP_PKEY_CTX_new",
       "EVP_PKEY_derive_init", "EVP_PKEY_derive_set_peer", "EVP_PKEY_derive",
       "OQS_KEM_decaps" >>

DecapsInjects ==
    { "private_key", "EVP_PKEY_new", "EVP_PKEY_copy_parameters",
      "EVP_PKEY_set1_encoded_public_key", "EVP_PKEY_CTX_new",
      "EVP_PKEY_derive_init", "EVP_PKEY_derive_set_peer", "EVP_PKEY_derive",
      "OQS_KEM_decaps" }

\* the handles in the order the err: label frees them
DecapsHandles == << "peerpkey", "pkey", "ctx" >>

\* line 300: ON_ERR_SET_GOTO(ret <= 0, ret, -1, err) on EVP_PKEY_derive's return
DeriveUnchecked(ret) == FALSE

DeriveFailed(ret) == ret <= 0

\* line 302: ret = OQS_SUCCESS == OQS_KEM_decaps(...)
DecapsRetInverted(status) == IF OQS_SUCCESS = status THEN 0 ELSE 1

DecapsRet(status) == IF OQS_SUCCESS = status THEN 1 ELSE 0

\* oqs_hyb_kem_decaps with a key bound
DecapsBound(c, key, secretArg, ctIn, ctlenIn, inject, lucky) ==
    LET privkey == PrivKeyOf(key)
        sk == oqsx_get_privkey_ptr(privkey)
        privkey_kem == ReadAt(privkey, sk.kem, sk.kemlen)
        privkey_kex == ReadAt(privkey, sk.kex, sk.kexlen)
        pubkey_kexlen == KexPubLen
        secretlen == HybSecretLen
        secret0 == IF secretArg THEN Rep(secretlen, BLANK) ELSE << >>
        call == [NoCall EXCEPT !.op = "decaps", !.ctx = c, !.key = key,
                               !.ctArg = TRUE, !.secretArg = secretArg,
                               !.ctIn = ctIn, !.ctlenIn = ctlenIn,
                               !.secretlen = secretlen, !.secret = secret0]
        \* compute phase
        steps == DecapsSteps(key)
        own == KexDecodePriv(privkey_kex)
        view == oqsx_get_ct_ptr(TRUE, ctlenIn, KemCtLen, pubkey_kexlen)
        nullView == view.ct2 = NULLPTR
        peer == IF nullView THEN NULL
                ELSE KexDecodePub(ReadAt(ctIn, view.ct2, pubkey_kexlen))
        deriveRet == IF inject = "EVP_PKEY_derive" THEN 0 ELSE 1
        fails == {i \in 1..8 :
                     \/ i < 8 /\ inject = steps[i]
                     \/ i = 1 /\ (inject = "private_key" \/ own = NULL)
                     \/ i = 4 /\ peer = NULL
                     \/ i = 8 /\ DeriveFailed(deriveRet)}
        f == IF fails = {} THEN 9 ELSE First(fails)
        status == IF inject = "OQS_KEM_decaps" THEN OQS_SUCCESS + 1 ELSE OQS_SUCCESS
        kex == KexSecret(own, peer)
        secret1 == IF f >= 8 /\ deriveRet > 0
                   THEN WriteAt(secret0, KexSecretAt, kex) ELSE secret0
        secret2 == IF f > 8 /\ status = OQS_SUCCESS
                   THEN WriteAt(secret1, KemSecretAt,
                                OQS_KEM_decaps(ReadAt(ctIn, view.ct1, KemCtLen), privkey_kem))
                   ELSE secret1
        got == {h \in {"peerpkey", "pkey", "ctx"} :
                   \/ h = "pkey" /\ f > 1
                   \/ h = "peerpkey" /\ f > 2
                   \/ h = "ctx" /\ f > 5}
        \* ctx is declared without an initializer and assigned at line 291
        ctxUninit == f <= 4
        freed == Keep(DecapsHandles, got \cup (IF ctxUninit THEN {"ctx"} ELSE {}))
    IN  IF DecapsSizeQuery(secretArg)
        THEN [call EXCEPT !.ret = 1]
        ELSE IF f >= 4 /\ nullView /\ ~lucky
        THEN [call EXCEPT !.fault = "null_read", !.returned = FALSE,
                          !.inject = inject, !.view = view,
                          !.prims = SubSeq(steps, 1, 4),
                          !.acquired = got]
        ELSE [call EXCEPT !.ret = IF f <= 8 THEN -1 ELSE DecapsRet(status),
                          !.returned = ~ctxUninit \/ lucky,
                          !.fault = IF f >= 4 /\ nullView THEN "null_read"
                                    ELSE IF ctxUninit THEN "uninit_free"
                                    ELSE "none",
                          !.secret = secret2,
                          !.inject = inject,
                          !.view = IF f >= 2 THEN view ELSE NoCall.view,
                          !.kex = IF f < 8 THEN "none"
                                  ELSE IF deriveRet > 0 THEN "ok" ELSE "fail",
                          !.kem = IF f <= 8 THEN "none"
                                  ELSE IF status = OQS_SUCCESS THEN "ok" ELSE "fail",
                          !.prims = SubSeq(steps, 1, f),
                          !.acquired = got,
                          !.released = freed]


\* oqs_hyb_kem_decaps with no key bound: line 254 jumps to err: over the
\* declarations of ctx, pkey and peerpkey, and the three are freed unassigned
DecapsUnbound(c, secretArg, ctIn, ctlenIn, lucky) ==
    [NoCall EXCEPT !.op = "decaps", !.ctx = c, !.key = NULL,
                   !.ctArg = TRUE, !.secretArg = secretArg,
                   !.ctIn = ctIn, !.ctlenIn = ctlenIn,
                   !.secret = IF secretArg THEN Rep(HybSecretLen, BLANK) ELSE << >>,
                   !.ret = OQS_SUCCESS,
                   !.fault = "uninit_free", !.returned = lucky,
                   !.released = DecapsHandles]

\* the ciphertext buffers a caller hands in: what an encapsulation gave it,
\* or zero bytes; with the length right, one short, one long, or 2^16 long
CtLenDeltas == {0, -1, 1, UINT16_RANGE}

CtBuffer(src, delta) ==
    LET full == IF src = "wire" THEN wire.ct ELSE Rep(KemCtLen + KexPubLen, 0)
    IN  IF delta < 0 THEN SubSeq(full, 1, Len(full) + delta)
        ELSE IF delta > 0 THEN full \o << 0 >>
        ELSE full

oqs_hyb_kem_decaps(c, secretArg, src, delta, inject, lucky) ==
    /\ Running
    /\ ctxState[c] = "live"
    /\ src = "wire" => wire.op = "encaps"
    /\ LET ctIn == CtBuffer(src, delta)
           ctlenIn == KemCtLen + KexPubLen + delta
       IN  last' = IF ctxKem[c] = NULL
                   THEN DecapsUnbound(c, secretArg, ctIn, ctlenIn, lucky)
                   ELSE DecapsBound(c, ctxKem[c], secretArg, ctIn, ctlenIn, inject, lucky)
    /\ UNCHANGED <<ctxState, ctxKem, refcnt, owner, wire, pend>>

(***************************************************************************)
(* The calls a caller can make on the contexts C.  An argument the call    *)
(* never reads (the random draws and the test double of a size query or of *)
(* a call on an unbound context) is held at one value, and a test double   *)
(* is combined with a ciphertext of the right length only: a wrong length  *)
(* adds no path through decaps that the double does not already take.      *)
(***************************************************************************)
NewCtxOn(C) == \E c \in C, allocOk \in BOOLEAN : oqs_hyb_kem_newctx(c, allocOk)

EncapsInitOn(C) == \E c \in C, vkem \in KeyIds \cup {NULL} : oqs_hyb_kem_encaps_init(c, vkem)

DecapsInitOn(C) == \E c \in C, vkem \in KeyIds \cup {NULL} : oqs_hyb_kem_decaps_init(c, vkem)

EncapsOn(C) ==
    \E c \in C, ctArg \in BOOLEAN, secretArg \in BOOLEAN :
      LET unread == ctxKem[c] = NULL \/ ~ctArg \/ ~secretArg IN
      \E inject \in IF unread THEN {"none"} ELSE EncapsInjects \cup {"none"} :
      \E r \in IF unread \/ inject # "none" THEN {1} ELSE RandIds :
      \E e \in IF unread THEN {1} ELSE EphIds :
      \E keep \in IF unread \/ inject # "none" THEN {FALSE} ELSE BOOLEAN :
        oqs_hyb_kem_encaps(c, ctArg, secretArg, r, e, inject, keep)

DecapsOn(C) ==
    \E c \in C, secretArg \in BOOLEAN, src \in {"wire", "zeros"} :
      LET bound == ctxKem[c] # NULL IN
      \E inject \in IF bound /\ secretArg THEN DecapsInjects \cup {"none"} ELSE {"none"} :
      \E delta \in IF inject = "none" THEN CtLenDeltas ELSE {0} :
      \E lucky \in IF bound /\ ~secretArg THEN {TRUE} ELSE BOOLEAN :
        oqs_hyb_kem_decaps(c, secretArg, src, delta, inject, lucky)

FreeCtxOn(C) == \E c \in C, stale \in BOOLEAN : oqs_hyb_kem_freectx(c, stale)

OwnerFree == \E k \in KeyIds : KeyOwnerFree(k)

NewCtx == NewCtxOn(CtxIds)
EncapsInit == EncapsInitOn(CtxIds)
DecapsInit == DecapsInitOn(CtxIds)
Encaps == EncapsOn(CtxIds)
Decaps == DecapsOn(CtxIds)
FreeCtx == FreeCtxOn(CtxIds)

\* The whole dispatch table on every context.  Its state space is the product
\* of the two halves below, which are the ones explored exhaustively.
Next == NewCtx \/ EncapsInit \/ DecapsInit \/ Encaps \/ Decaps \/ FreeCtx \/ OwnerFree

Spec == Init /\ [][Next]_vars

(***************************************************************************)
(* The lifecycle alone: contexts, bindings and reference counts.           *)
(***************************************************************************)
NextLife == NewCtx \/ EncapsInit \/ DecapsInit \/ FreeCtx \/ OwnerFree

SpecLife == Init /\ [][NextLife]_vars

(***************************************************************************)
(* The KEM operations.  encaps and decaps read the context they are given  *)
(* and the key bound to it and nothing else, so they are run on one        *)
(* context, created and rebound to any key at will.                        *)
(***************************************************************************)
KemCtxIds == {1}

NextKem ==
    \/ NewCtxOn(KemCtxIds)
    \/ EncapsInitOn(KemCtxIds)
    \/ DecapsInitOn(KemCtxIds)
    \/ EncapsOn(KemCtxIds)
    \/ DecapsOn(KemCtxIds)

SpecKem == Init /\ [][NextKem]_vars

(***************************************************************************)
(* Threads.  One thread per context makes the lifecycle calls on it, and   *)
(* the calls of different threads interleave between their reference       *)
(* operations: oqsx_key_up_ref and oqsx_key_free are each one atomic step, *)
(* and nothing else a call does touches memory another thread uses.  A     *)
(* context in the middle of an init is "init_retained" once line 130 has   *)
(* retained the new key, kept in pend, and "init_released" once line 132   *)
(* has released the old one; a context in the middle of freectx is         *)
(* "free_released" once line 121 has released its key.  No thread frees    *)
(* its context twice.  The lifecycle calls read nothing of a key but its   *)
(* count, so the threads are handed one key object of each keypair.        *)
(***************************************************************************)
\* the key handles (vkem) the threads pass to init and the owners release
SharedKeys == {k \in KeyIds : WellFormed(k)}

\* oqs_hyb_kem_newctx, allocation succeeding
ThreadNewCtx(c) ==
    /\ ctxState[c] = "none"
    /\ ctxState' = [ctxState EXCEPT ![c] = "live"]
    /\ ctxKem' = [ctxKem EXCEPT ![c] = NULL]
    /\ UNCHANGED <<refcnt, owner, last, wire, pend>>

\* init, lines 130-131: refuse the key, or retain it
ThreadInitRetain(c, vkem) ==
    /\ ctxState[c] = "live"
    /\ IF InitRejects(refcnt, vkem)
       THEN UNCHANGED <<ctxState, refcnt, pend>>
       ELSE /\ refcnt' = InitFirst(refcnt, ctxKem[c], vkem)
            /\ pend' = [pend EXCEPT ![c] = vkem]
            /\ ctxState' = [ctxState EXCEPT ![c] = "init_retained"]
    /\ UNCHANGED <<ctxKem, owner, last, wire>>

\* init, line 132: release the key held
ThreadInitRelease(c) ==
    /\ ctxState[c] = "init_retained"
    /\ refcnt' = InitSecond(refcnt, ctxKem[c], pend[c])
    /\ ctxState' = [ctxState EXCEPT ![c] = "init_released"]
    /\ UNCHANGED <<ctxKem, owner, last, wire, pend>>

\* init, lines 133-135: store the new key and return
ThreadInitStore(c) ==
    /\ ctxState[c] = "init_released"
    /\ ctxKem' = [ctxKem EXCEPT ![c] = pend[c]]
    /\ pend' = [pend EXCEPT ![c] = NULL]
    /\ ctxState' = [ctxState EXCEPT ![c] = "live"]
    /\ UNCHANGED <<refcnt, owner, last, wire>>

\* freectx, line 121: release the key held
ThreadFreeRelease(c) ==
    /\ ctxState[c] = "live"
    /\ refcnt' = oqsx_key_free(refcnt, ctxKem[c])
    /\ ctxState' = [ctxState EXCEPT ![c] = "free_released"]
    /\ UNCHANGED <<ctxKem, owner, last, wire, pend>>

\* freectx, line 122: free the context
ThreadFreeCtx(c) ==
    /\ ctxState[c] = "free_released"
    /\ ctxState' = [ctxState EXCEPT ![c] = "freed"]
    /\ UNCHANGED <<ctxKem, refcnt, owner, last, wire, pend>>

\* key management drops its own reference to a key, in a thread of its own
ThreadOwnerFree(k) ==
    /\ owner[k]
    /\ owner' = [owner EXCEPT ![k] = FALSE]
    /\ refcnt' = oqsx_key_free(refcnt, k)
    /\ UNCHANGED <<ctxState, ctxKem, last, wire, pend>>

ConcNewCtx == \E c \in CtxIds : ThreadNewCtx(c)
ConcInitRetain == \E c \in CtxIds, vkem \in {NULL} \cup SharedKeys : ThreadInitRetain(c, vkem)
ConcInitRelease == \E c \in CtxIds : ThreadInitRelease(c)
ConcInitStore == \E c \in CtxIds : ThreadInitStore(c)
ConcFreeRelease == \E c \in CtxIds : ThreadFreeRelease(c)
ConcFreeCtx == \E c \in CtxIds : ThreadFreeCtx(c)
ConcOwnerFree == \E k \in SharedKeys : ThreadOwnerFree(k)

NextConc ==
    \/ ConcNewCtx
    \/ ConcInitRetain
    \/ ConcInitRelease
    \/ ConcInitStore
    \/ ConcFreeRelease
    \/ ConcFreeCtx
    \/ ConcOwnerFree

SpecConc == Init /\ [][NextConc]_vars

(***************************************************************************)
(* Properties.                                                             *)
(***************************************************************************)
IsKemCall(call) == call.op \in {"encaps", "decaps"}

SizeQuery(call) == IsKemCall(call) /\ ~ComputePhase(call)

AllBlank(buf) == \A i \in 1..Len(buf) : buf[i] = BLANK

Invoked(call, prim) == \E i \in 1..Len(call.prims) : call.prims[i] = prim

Before(call, a, b) ==
    \E i, j \in 1..Len(call.prims) :
        i < j /\ call.prims[i] = a /\ call.prims[j] = b

HybCtLen == KemCtLen + KexPubLen

\* last is a compute-phase decapsulation, on a key object holding the keypair
\* the kept encapsulation was made for, of the ciphertext that encapsulation
\* gave, with the length it reported
DecapsOfWire ==
    /\ last.op = "decaps" /\ ComputePhase(last) /\ last.key # NULL
    /\ wire.op = "encaps"
    /\ KeyPairOf(last.key) = KeyPairOf(wire.key)
    /\ last.ctIn = wire.ct /\ last.ctlenIn = wire.ctlen

\* C1: round trip.  Decapsulating the ciphertext of a successful
\* encapsulation under the matching private key succeeds whenever no
\* primitive is made to fail, and whenever it succeeds the secret it writes is
\* the secret that same encapsulation wrote.
C1_RoundTrip ==
    DecapsOfWire =>
        /\ last.inject = "none" => Succeeded(last)
        /\ Succeeded(last) => last.secret = wire.secret

C1_Witness ==
    /\ DecapsOfWire /\ Succeeded(last)
    /\ last.secret = wire.secret /\ ~AllBlank(last.secret)

\* C2: no partial secrets.  A compute-phase decapsulation returns success only
\* if the key-exchange derivation and the KEM decapsulation both succeeded in
\* that call; when either reported failure the call returns, and returns
\* failure.
C2_NoPartialSecret ==
    (last.op = "decaps" /\ ComputePhase(last)) =>
        /\ Succeeded(last) => (last.kex = "ok" /\ last.kem = "ok")
        /\ (last.kex = "fail" \/ last.kem = "fail") => (last.returned /\ last.ret # 1)

\* the derivation fails on a ciphertext whose KEM part would decapsulate
C2_Witness ==
    /\ DecapsOfWire
    /\ last.kex = "fail" /\ last.kem = "none"
    /\ last.returned /\ last.ret = -1

\* C3: length invariant.  A compute-phase decapsulation of a ciphertext whose
\* length is not kemCtLen + kexPubLen returns failure without invoking a
\* primitive on ciphertext bytes and leaves the secret buffer unwritten.
C3_LengthInvariant ==
    (last.op = "decaps" /\ ComputePhase(last) /\ last.key # NULL
        /\ last.ctlenIn # HybCtLen) =>
        /\ last.returned /\ last.ret # 1
        /\ ~Invoked(last, "EVP_PKEY_set1_encoded_public_key")
        /\ ~Invoked(last, "OQS_KEM_decaps")
        /\ AllBlank(last.secret)

\* what the two primitives derive in the call
KemPartOf(call) ==
    IF call.op = "encaps"
    THEN KemSs(KeyPairOf(call.key), call.coins)
    ELSE OQS_KEM_decaps(SubSeq(call.ctIn, 1, KemCtLen),
                        KemPrivBytes(KeyPairOf(call.key)))

KexPartOf(call) ==
    IF call.op = "encaps"
    THEN KexSecret(EphKex(call.eph), StaticKex(KeyPairOf(call.key)))
    ELSE KexSecret(StaticKex(KeyPairOf(call.key)),
                   KexDecodePub(SubSeq(call.ctIn, KemCtLen + 1, KemCtLen + KexPubLen)))

KemPrim(call) == IF call.op = "encaps" THEN "OQS_KEM_encaps" ELSE "OQS_KEM_decaps"

\* C4: shared-secret layout.  After a successful compute-phase call the secret
\* buffer is the KEM secret followed by the key-exchange secret, its reported
\* length is kemSecretLen + kexSecretLen, and the key-exchange derivation ran
\* before the KEM primitive.
C4_SecretLayout ==
    (IsKemCall(last) /\ ComputePhase(last) /\ Succeeded(last)) =>
        /\ last.secretlen = KemSsLen + KexSsLen
        /\ Len(last.secret) = KemSsLen + KexSsLen
        /\ SubSeq(last.secret, 1, KemSsLen) = KemPartOf(last)
        /\ SubSeq(last.secret, KemSsLen + 1, KemSsLen + KexSsLen) = KexPartOf(last)
        /\ Before(last, "EVP_PKEY_derive", KemPrim(last))

C4_Witness ==
    /\ last.op = "decaps" /\ ComputePhase(last) /\ Succeeded(last)
    /\ SubSeq(last.secret, 1, KemSsLen) = KemPartOf(last)
    /\ SubSeq(last.secret, KemSsLen + 1, KemSsLen + KexSsLen) = KexPartOf(last)
    /\ wire.op = "encaps" /\ Len(wire.secret) = KemSsLen + KexSsLen
    /\ SubSeq(wire.secret, 1, KemSsLen) = KemPartOf(wire)

\* C5: ciphertext layout.  After a successful compute-phase encapsulation the
\* ciphertext buffer is the KEM ciphertext followed by the encoding of the
\* fresh ephemeral public key, and the reported length is kemCtLen + kexPubLen.
C5_CtLayout ==
    (last.op = "encaps" /\ ComputePhase(last) /\ Succeeded(last)) =>
        /\ last.ctlen = KemCtLen + KexPubLen
        /\ Len(last.ct) = KemCtLen + KexPubLen
        /\ SubSeq(last.ct, 1, KemCtLen) = KemCt(KeyPairOf(last.key), last.coins)
        /\ SubSeq(last.ct, KemCtLen + 1, KemCtLen + KexPubLen)
               = KexPubEnc(EphKex(last.eph))

C5_Witness ==
    /\ last.op = "encaps" /\ ComputePhase(last) /\ Succeeded(last)
    /\ last.eph \in EphIds /\ last.coins \in RandIds
    /\ SubSeq(last.ct, KemCtLen + 1, KemCtLen + KexPubLen)
           = KexPubEnc(EphKex(last.eph))

\* C6: deterministic sizing.  A size query on a bound context returns success
\* with ciphertext length kemCtLen + kexPubLen and secret length
\* kemSecretLen + kexSecretLen, whatever the bytes of the bound key.
C6_DeterministicSizing ==
    (SizeQuery(last) /\ last.key # NULL) =>
        /\ Succeeded(last)
        /\ last.secretlen = KemSsLen + KexSsLen
        /\ last.op = "encaps" => last.ctlen = KemCtLen + KexPubLen

Changed(rc1, rc2) == {k \in KeyIds : rc1[k] # rc2[k]}

IsInit(call) == call.op \in {"encaps_init", "decaps_init"}

\* C8: rebinding.  A successful init of a context that holds key A with another
\* key B takes one from A's count, adds one to B's, changes no other count and
\* leaves the context bound to B.
C8_Rebind ==
    [][ \A c \in CtxIds :
          (IsInit(last') /\ last'.ctx = c /\ last'.ret = 1
              /\ ctxKem[c] # NULL /\ last'.arg # ctxKem[c]) =>
            /\ refcnt'[ctxKem[c]] = refcnt[ctxKem[c]] - 1
            /\ refcnt'[last'.arg] = refcnt[last'.arg] + 1
            /\ Changed(refcnt, refcnt') = {ctxKem[c], last'.arg}
            /\ ctxKem' = [ctxKem EXCEPT ![c] = last'.arg] ]_vars

\* a rebind that took the last reference to the key it replaced
C8_Witness ==
    /\ IsInit(last) /\ last.ret = 1
    /\ last.key # NULL /\ last.arg # last.key
    /\ ctxKem[last.ctx] = last.arg
    /\ refcnt[last.key] = 0

\* C9: no bound key.  encapsulate and decapsulate on a context that was never
\* initialized return failure, without a read through the absent key, without
\* invoking a primitive and without releasing what was not acquired.
C9_NoBoundKey ==
    (IsKemCall(last) /\ last.key = NULL) =>
        /\ last.returned /\ last.ret # 1
        /\ last.fault = "none"
        /\ last.prims = << >>
        /\ \A i \in 1..Len(last.released) : last.released[i] \in last.acquired

\* C10 as stated: freeContext is idempotent.  A second freeContext on a context
\* changes no reference count and does not touch the freed context.
C10_Idempotent ==
    [][ (last'.op = "freectx" /\ ctxState[last'.ctx] = "freed") =>
            (refcnt' = refcnt /\ last'.fault = "none") ]_vars

\* C10 as amended: the first freeContext on a context takes exactly one from
\* the count of the key it holds (none when it holds none), changes no other
\* count and frees the context; a second freeContext on it is a use after
\* free, which changes no count unless it releases the stale key once more.
C10_FreeOnce ==
    [][ last'.op = "freectx" =>
          LET c == last'.ctx
              held == ctxKem[c]
          IN  IF ctxState[c] = "live"
              THEN /\ last'.fault = "none"
                   /\ ctxState'[c] = "freed"
                   /\ Changed(refcnt, refcnt') = {held} \ {NULL}
                   /\ held # NULL => refcnt'[held] = refcnt[held] - 1
              ELSE /\ last'.fault = "use_after_free"
                   /\ Changed(refcnt, refcnt') \subseteq {held}
                   /\ \A k \in KeyIds : refcnt'[k] \in {refcnt[k], refcnt[k] - 1} ]_vars

\* a second freeContext that released the stale key again
C10_Witness ==
    /\ last.op = "freectx" /\ last.fault = "use_after_free" /\ last.returned
    /\ last.key # NULL /\ ctxState[last.ctx] = "freed"
    /\ owner[last.key] /\ refcnt[last.key] = 0

\* C11: failed init.  An init call given a null key handle, or a key handle
\* whose retain fails, returns failure; and an init call that returns failure
\* leaves every binding, every context and every reference count as it was.
C11_FailedInit ==
    [][ IsInit(last') =>
            /\ (last'.arg = NULL \/ ~oqsx_key_up_ref_ok(refcnt, last'.arg))
                   => last'.ret = 0
            /\ last'.ret = 0 =>
                   /\ ctxKem' = ctxKem /\ refcnt' = refcnt
                   /\ ctxState' = ctxState /\ owner' = owner
      ]_vars

\* a context holding a live key was handed a key already destroyed, and refused it
C11_Witness ==
    /\ IsInit(last) /\ last.ret = 0
    /\ last.arg # NULL /\ Destroyed(refcnt, last.arg)
    /\ last.key # NULL /\ ctxKem[last.ctx] = last.key /\ refcnt[last.key] > 0

\* C12: encapsulate success condition.  A compute-phase encapsulate returns
\* success if and only if the ephemeral key generation, the key-exchange
\* derivation, the KEM encapsulation and the re-encoding of the ephemeral
\* public key to the key's key-exchange length all succeeded in that call;
\* when any of them failed the call returns, and returns failure.
C12_EncapsSuccess ==
    (last.op = "encaps" /\ ComputePhase(last)) =>
        /\ Succeeded(last) <=>
               /\ last.keygen = "ok" /\ last.kex = "ok"
               /\ last.kem = "ok" /\ last.encode = "ok"
        /\ "fail" \in {last.keygen, last.kex, last.kem, last.encode} =>
               last.returned /\ last.ret = -1

\* key generation, derivation and KEM encapsulation succeeded, the re-encoded
\* public key came out with another length, and the call failed
C12_Witness ==
    /\ last.op = "encaps" /\ ComputePhase(last)
    /\ last.keygen = "ok" /\ last.kex = "ok" /\ last.kem = "ok"
    /\ last.encode = "fail" /\ last.inject = "encoded_length"
    /\ last.returned /\ last.ret = -1

\* the bytes of an encapsulation's ciphertext buffer that hold the ephemeral
\* key-exchange public key
EphPartOf(call) == SubSeq(call.ct, KemCtLen + 1, Len(call.ct))

\* C13: fixed primitive order.  In every compute-phase encapsulate and
\* decapsulate the KEM primitive is invoked only after the key-exchange
\* derivation, and only in a call whose derivation succeeded; a call whose
\* derivation failed does not invoke it; and an encapsulate writes the
\* ephemeral public key into the ciphertext only after the derivation and the
\* KEM encapsulation were both invoked and both succeeded.
C13_PrimitiveOrder ==
    (IsKemCall(last) /\ ComputePhase(last)) =>
        /\ Invoked(last, KemPrim(last)) =>
               /\ Before(last, "EVP_PKEY_derive", KemPrim(last))
               /\ last.kex = "ok"
        /\ last.kex = "fail" =>
               /\ Invoked(last, "EVP_PKEY_derive")
               /\ ~Invoked(last, KemPrim(last)) /\ last.kem = "none"
        /\ last.kem # "none" => Invoked(last, KemPrim(last))
        /\ (last.op = "encaps" /\ (Invoked(last, "memcpy") \/ ~AllBlank(EphPartOf(last)))) =>
               /\ last.kex = "ok" /\ last.kem = "ok"
               /\ Before(last, "EVP_PKEY_derive", "memcpy")
               /\ Before(last, "OQS_KEM_encaps", "memcpy")

\* an encapsulation that derived, encapsulated and then wrote the ephemeral key
C13_Witness ==
    /\ last.op = "encaps" /\ ComputePhase(last) /\ Succeeded(last)
    /\ Before(last, "EVP_PKEY_derive", "OQS_KEM_encaps")
    /\ Before(last, "OQS_KEM_encaps", "memcpy")
    /\ ~AllBlank(EphPartOf(last))

\* last' is a successful init of a context that held a key
Rebinds(call) == IsInit(call) /\ call.ret = 1 /\ call.key # NULL

\* C14 as stated: init ordering.  When init is called on a context that already
\* holds a key, the context's reference to the old key is released first: after
\* the first reference operation of the call the old key's count is one lower
\* and no count is higher.
C14_ReleaseFirst ==
    [][ Rebinds(last') =>
            last'.mid = [refcnt EXCEPT ![last'.key] = @ - 1]
      ]_vars

\* C14: init ordering.  When init is called on a context that already holds a
\* key and succeeds, the new key is retained first, with the old key's
\* reference still held; then the old key's reference is released, and the new
\* key is stored in the context.
C14_RetainFirst ==
    [][ Rebinds(last') =>
            /\ last'.mid = [refcnt EXCEPT ![last'.arg] = @ + 1]
            /\ refcnt' = [last'.mid EXCEPT ![last'.key] = @ - 1]
            /\ ctxKem[last'.ctx] = last'.key
            /\ ctxKem'[last'.ctx] = last'.arg
      ]_vars

\* a context rebound from one key to another: between the two operations both
\* keys were counted for it
C14_Witness ==
    /\ Rebinds(last) /\ last.key # last.arg
    /\ last.mid[last.key] = refcnt[last.key] + 1
    /\ last.mid[last.arg] = refcnt[last.arg]
    /\ ctxKem[last.ctx] = last.arg

\* how many times the call released handle h
TimesReleased(call, h) ==
    Cardinality({i \in 1..Len(call.released) : call.released[i] = h})

\* C15: decapsulate cleanup.  On every exit path of decapsulate no release is
\* applied to a handle the call never assigned, and a call that returns has
\* released each of the handles it acquired (own key-exchange key, peer key,
\* derivation context) exactly once.
C15_DecapsCleanup ==
    last.op = "decaps" =>
        /\ \A i \in 1..Len(last.released) : last.released[i] \in last.acquired
        /\ last.returned => \A h \in last.acquired : TimesReleased(last, h) = 1

\* C16: encapsulate cleanup.  A size-query encapsulate acquires and releases
\* nothing.  A compute-phase encapsulate that returns, with success or with
\* any failure, has released exactly once each handle it acquired (derivation
\* context, key-generation context, ephemeral keypair, peer key, encoded
\* public key) and nothing else; the ephemeral keypair it generated is among
\* them.
C16_EncapsCleanup ==
    last.op = "encaps" =>
        /\ ~ComputePhase(last) => last.acquired = {} /\ last.released = << >>
        /\ (ComputePhase(last) /\ last.returned) =>
               /\ \A h \in last.acquired : TimesReleased(last, h) = 1
               /\ \A i \in 1..Len(last.released) : last.released[i] \in last.acquired
               /\ last.keygen = "ok" => "pkey" \in last.acquired
               /\ last.encode = "ok" => "ctkex_encoded" \in last.acquired

\* the derivation failed after the ephemeral keypair was generated; the
\* keypair and the three other handles acquired were released
C16_Witness ==
    /\ last.op = "encaps" /\ ComputePhase(last) /\ last.returned /\ last.ret = -1
    /\ last.keygen = "ok" /\ last.kex = "fail"
    /\ last.acquired = {"peerpk", "kgctx", "pkey", "ctx"}
    /\ last.released = << "ctx", "kgctx", "pkey", "peerpk" >>

\* the lengths a call hands to oqsx_get_ct_ptr: the whole ciphertext's, the
\* KEM part's and the key-exchange part's
SplitCtLen(call) == IF call.op = "decaps" THEN call.ctlenIn ELSE call.ctlen

SplitLen1(call) == KemCtLen

SplitLen2(call) == IF call.op = "decaps" THEN KexPubLen ELSE call.ctlen - KemCtLen

\* C17: the ciphertext split checks its length over the full range.  Whenever
\* a call splits a ciphertext buffer, the split succeeds if and only if the
\* ciphertext length equals the sum of the two component lengths as integers,
\* and on success the first part starts at offset 0 and the second at the
\* first's length.
C17_SplitFullRange ==
    (IsKemCall(last) /\ last.view.ret # BLANK) =>
        /\ last.view.ret = 1 <=> SplitCtLen(last) = SplitLen1(last) + SplitLen2(last)
        /\ last.view.ret = 1 => last.view.ct1 = 0 /\ last.view.ct2 = SplitLen1(last)

\* the live contexts bound to key k
Holders(k) == {c \in CtxIds : ctxState[c] = "live" /\ ctxKem[c] = k}

\* the references key management holds to key k
OwnerRefs(k) == IF owner[k] THEN 1 ELSE 0

\* C18: reference-count invariant.  After any sequence of newctx, init and
\* freectx calls and releases by the keys' owners in which no context was freed
\* twice, every key's reference count is the number of references its owners
\* hold plus the number of live contexts bound to it, a key is destroyed
\* exactly when nobody holds it, and no live context is bound to a destroyed
\* key.
C18_RefCount ==
    last.fault # "use_after_free" =>
        /\ \A k \in KeyIds :
               /\ refcnt[k] = OwnerRefs(k) + Cardinality(Holders(k))
               /\ Destroyed(refcnt, k) <=> (~owner[k] /\ Holders(k) = {})
        /\ \A c \in CtxIds :
               (ctxState[c] = "live" /\ ctxKem[c] # NULL) => ~Destroyed(refcnt, ctxKem[c])

\* a context gave up the last reference to one key, destroying it, for a key
\* that two contexts and no owner now hold
C18_Witness ==
    /\ Rebinds(last) /\ last.key # last.arg
    /\ Destroyed(refcnt, last.key)
    /\ ~owner[last.arg] /\ Cardinality(Holders(last.arg)) = 2
    /\ refcnt[last.arg] = 2

\* an init call given the key the context already held
SameKeyInit(call) == IsInit(call) /\ call.key # NULL /\ call.arg = call.key

\* C20: re-init with the same key.  An init of a context with the key it
\* already holds succeeds, leaves the context bound to that key and every
\* reference count as it was, and the key is destroyed neither between the
\* two reference operations of the call nor after them, even when the context
\* holds the only reference to it.
C20_ReinitSameKey ==
    [][ SameKeyInit(last') =>
            /\ last'.ret = 1
            /\ refcnt' = refcnt /\ ctxKem' = ctxKem
            /\ ~Destroyed(last'.mid, last'.key)
            /\ ~Destroyed(refcnt', last'.key)
      ]_vars

\* the context held the only reference to the key it was given again
C20_Witness ==
    /\ SameKeyInit(last) /\ last.ret = 1
    /\ ~owner[last.key] /\ refcnt[last.key] = 1
    /\ Holders(last.key) = {last.ctx}
    /\ last.mid[last.key] = 2

\* the references to key k that the threads' contexts and calls hold: a
\* context holds the key bound to it until line 121 or 132 releases it, and
\* an init in progress holds the key it retained until it is stored
ThreadRefs(k) ==
    Cardinality({c \in CtxIds :
                    ctxKem[c] = k /\ ctxState[c] \in {"live", "init_retained"}})
    + Cardinality({c \in CtxIds : pend[c] = k})

\* C19: concurrent sharing of a key handle.  With retain and release atomic,
\* under every interleaving of the init and freectx calls of different threads
\* on distinct contexts, and of the owners' releases: no update of a count is
\* lost (every key's count is the number of references its owners, the
\* contexts and the calls in progress hold), a key is destroyed only when
\* nobody holds it any more, no step retains or releases through a context a
\* key already destroyed, and a key once destroyed is never revived, so it is
\* destroyed at most once.
C19_ConcurrentSharing ==
    [][ /\ \A k \in KeyIds :
               /\ refcnt'[k] = (IF owner'[k] THEN 1 ELSE 0)
                               + (ThreadRefs(k))'
               /\ Destroyed(refcnt, k) => Destroyed(refcnt', k)
               /\ Destroyed(refcnt', k) => (~owner'[k] /\ (ThreadRefs(k))' = 0)
        /\ \A c \in CtxIds :
               (ctxState[c] \in {"live", "init_retained"} /\ ctxKem[c] # NULL)
                   => ~Destroyed(refcnt, ctxKem[c])
      ]_vars

\* two threads released the key their contexts shared, one inside freectx, the
\* other inside an init with another key, and the second release destroyed it
C19_Witness ==
    \E k \in KeyIds :
        /\ Destroyed(refcnt, k)
        /\ ctxState[1] = "free_released" /\ ctxKem[1] = k
        /\ ctxState[2] = "init_released" /\ ctxKem[2] = k
        /\ pend[2] # NULL /\ pend[2] # k /\ refcnt[pend[2]] > 0
====
